---- MODULE Spec2Model ----
(***************************************************************************)
(* Model of src/main.py (PYResizer): auto_crop_borders, the border         *)
(* detection / crop / square-padding routine, and process_folder, the      *)
(* batch driver that calls it once per discovered image.                   *)
(*                                                                         *)
(* An image is the RGBA array of main.py line 32: a record                 *)
(*   [w |-> width, h |-> height, px |-> [<<row, col>> -> <<r, g, b, a>>]]  *)
(* indexed as numpy indexes img_array[row, col], rows and columns from 0.  *)
(* A pixel is a 4-tuple; pixel[4] is Python's pixel[3], the alpha channel. *)
(***************************************************************************)
EXTENDS Integers, Sequences, FiniteSets, TLC

VARIABLES
    pc,                \* auto_crop_borders: "start" | "done"; "idle" elsewhere
    file,              \* the file at input_path
    threshold,         \* parameter threshold
    crop_transparent,  \* parameter crop_transparent
    make_square,       \* parameter make_square
    padding,           \* parameter padding
    env,               \* what the library calls of the run did (open, save)
    top, bottom, left, right,   \* the four boundaries after the scans
    path,              \* branch taken: "none" | "nocrop" | "crop"
    paste_position,    \* paste_position of line 104 (<<x, y>>)
    out,               \* the image written to output_path (NoImage: none)
    ret,               \* what the call gave its caller: "True" | "False" | "raise"
    runs,              \* 1: first call, 2: call on the first call's output
    prev,              \* the first call's output, during the second call
    pixel,             \* is_background: the pixel classified
    verdict,           \* is_background: "unset" | "background" | "content"
    bpc,               \* process_folder: position in the function
    nFolders,          \* process_folder: len(folders)
    folderIdx,         \* process_folder: folders already completed
    listing,           \* the current folder's PNG / Transparent_ Background dirs
    source_images,     \* process_folder: source_images of the current folder
    imgIdx,            \* process_folder: images of source_images already processed
    resized,           \* the current folder's Resized dir: output name -> file
    calls              \* auto_crop_borders calls made for the current folder

cropVars  == <<pc, file, make_square, padding, env, top, bottom, left, right,
               path, paste_position, out, ret, runs, prev>>
paramVars == <<threshold, crop_transparent>>
pixelVars == <<pixel, verdict>>
batchVars == <<bpc, nFolders, folderIdx, listing, source_images, imgIdx,
               resized, calls>>
vars      == <<cropVars, paramVars, pixelVars, batchVars>>

----------------------------------------------------------------------------
(* Bounds of the model and constants of the program *)

MaxW == 3
MaxH == 3
MaxMarks == 2
MaxPad == 1
DefaultThreshold == 240
MaxFolders == 2
MaxFiles == 2
BatchThreshold == 240
BatchPadding == 700

----------------------------------------------------------------------------
(* Images *)

Max(a, b) == IF a >= b THEN a ELSE b

Cells(w, h) == (0 .. h - 1) \X (0 .. w - 1)

NoImage == [w |-> -1, h |-> -1, px |-> <<>>]

Paper    == <<240, 250, 255, 255>>   \* opaque, every colour channel >= 240
Ink      == <<239, 255, 255, 255>>   \* opaque, red just under 240
ClearRed == <<255, 0, 0, 0>>         \* fully transparent red
White    == <<255, 255, 255, 255>>
Black    == <<0, 0, 0, 255>>

Marks == {Ink, ClearRed}

RECURSIVE SubsetsUpTo(_, _)
SubsetsUpTo(S, k) ==
    IF k = 0 THEN {{}}
    ELSE LET smaller == SubsetsUpTo(S, k - 1)
         IN  smaller \cup {T \cup {x} : T \in smaller, x \in S}

MarkedImage(w, h, m) ==
    [w |-> w, h |-> h,
     px |-> [c \in Cells(w, h) |-> IF c \in DOMAIN m THEN m[c] ELSE Paper]]

\* Images with no pixels: zero width, zero height, or both.
EmptyImages ==
    { [w |-> w, h |-> h, px |-> [c \in Cells(w, h) |-> Paper]] :
        <<w, h>> \in {<<0, 0>>, <<0, 1>>, <<1, 0>>, <<0, 2>>, <<2, 0>>} }

\* The 10 x 10 white image with a black block at (3,3)..(6,6).
Scenario10 ==
    [w |-> 10, h |-> 10,
     px |-> [c \in Cells(10, 10) |->
               IF c[1] \in 3 .. 6 /\ c[2] \in 3 .. 6 THEN Black ELSE White]]

ImageFile(img) == [kind |-> "image", img |-> img]
MissingFile    == [kind |-> "missing", img |-> NoImage]
CorruptFile    == [kind |-> "corrupt", img |-> NoImage]

IsEmptyImage(img) == img.w = 0 \/ img.h = 0

----------------------------------------------------------------------------
(* auto_crop_borders, lines 14-126 *)

\* is_background, lines 41-46 (crop_transparent is the enclosing call's).
is_background_no_alpha(p, thr, ct) == \A i \in 1 .. 3 : p[i] >= thr

is_background(p, thr, ct) ==
    IF ct /\ p[4] = 0 THEN TRUE ELSE \A i \in 1 .. 3 : p[i] >= thr

\* all(is_background(img_array[row, col], threshold) for col in range(width))
RowIsBackground(img, row, thr, ct) ==
    \A col \in 0 .. img.w - 1 : is_background(img.px[<<row, col>>], thr, ct)

\* all(is_background(img_array[row, col], threshold) for row in range(height))
ColIsBackground(img, col, thr, ct) ==
    \A row \in 0 .. img.h - 1 : is_background(img.px[<<row, col>>], thr, ct)

\* Lines 55-57, entered with t = 0.
RECURSIVE TopLoop(_, _, _, _)
TopLoop(img, thr, ct, t) ==
    IF t < img.h /\ RowIsBackground(img, t, thr, ct)
    THEN TopLoop(img, thr, ct, t + 1)
    ELSE t

RECURSIVE TopLoop_stops_early(_, _, _, _)
TopLoop_stops_early(img, thr, ct, t) ==
    IF t < img.h - 1 /\ RowIsBackground(img, t, thr, ct)
    THEN TopLoop_stops_early(img, thr, ct, t + 1)
    ELSE t

\* Lines 60-62, entered with b = height - 1.
RECURSIVE BottomLoop(_, _, _, _)
BottomLoop(img, thr, ct, b) ==
    IF b >= 0 /\ RowIsBackground(img, b, thr, ct)
    THEN BottomLoop(img, thr, ct, b - 1)
    ELSE b

\* Lines 65-67, entered with l = 0.
RECURSIVE LeftLoop(_, _, _, _)
LeftLoop(img, thr, ct, l) ==
    IF l < img.w /\ ColIsBackground(img, l, thr, ct)
    THEN LeftLoop(img, thr, ct, l + 1)
    ELSE l

\* Lines 70-72, entered with r = width - 1.
RECURSIVE RightLoop(_, _, _, _)
RightLoop(img, thr, ct, r) ==
    IF r >= 0 /\ ColIsBackground(img, r, thr, ct)
    THEN RightLoop(img, thr, ct, r - 1)
    ELSE r

FindTop_stops_early(img, thr, ct) == TopLoop_stops_early(img, thr, ct, 0)

FindTop(img, thr, ct)    == TopLoop(img, thr, ct, 0)
FindBottom(img, thr, ct) == BottomLoop(img, thr, ct, img.h - 1)
FindLeft(img, thr, ct)   == LeftLoop(img, thr, ct, 0)
FindRight(img, thr, ct)  == RightLoop(img, thr, ct, img.w - 1)

\* Line 78: the test that sends the call down the no-crop path.
NoBorders_strict(t, b, l, r) == t > b \/ l > r

NoBorders(t, b, l, r) == t >= b \/ l >= r

\* Line 88: the box handed to img.crop.
CropBox_exclusive(l, t, r, b) == <<l, t, r, b>>

CropBox(l, t, r, b) == <<l, t, r + 1, b + 1>>

\* PIL's Image.crop((x0, y0, x1, y1)): x1 and y1 exclusive.
PILCrop(img, box) ==
    LET w == box[3] - box[1]
        h == box[4] - box[2]
    IN  [w |-> w, h |-> h,
         px |-> [c \in Cells(w, h) |-> img.px[<<box[2] + c[1], box[1] + c[2]>>]]]

\* Line 98.
SquareSize_single_padding(cw, ch, pad) == Max(cw, ch) + pad

SquareSize(cw, ch, pad) == Max(cw, ch) + (pad * 2)

\* Lines 104-107.
PastePosition_no_halving(cw, ch, pad) ==
    <<pad + (Max(cw, ch) - cw), pad + (Max(cw, ch) - ch)>>

PastePosition(cw, ch, pad) ==
    <<pad + ((Max(cw, ch) - cw) \div 2), pad + ((Max(cw, ch) - ch) \div 2)>>

\* Line 101: Image.new('RGBA', (size, size), (0, 0, 0, 0)).
NewImage(size, colour) ==
    [w |-> size, h |-> size, px |-> [c \in Cells(size, size) |-> colour]]

\* Line 110: canvas.paste(im, (x, y)) without a mask: an opaque overwrite of
\* the box (x, y, x + im.w, y + im.h).
Paste(canvas, im, pos) ==
    [canvas EXCEPT !.px =
        [c \in Cells(canvas.w, canvas.h) |->
            IF /\ c[1] >= pos[2] /\ c[1] < pos[2] + im.h
               /\ c[2] >= pos[1] /\ c[2] < pos[1] + im.w
            THEN im.px[<<c[1] - pos[2], c[2] - pos[1]>>]
            ELSE canvas.px[c]]]

\* Lines 93-111.
Square(cropped, pad) ==
    Paste(NewImage(SquareSize(cropped.w, cropped.h, pad), <<0, 0, 0, 0>>),
          cropped,
          PastePosition(cropped.w, cropped.h, pad))

NoPaste == <<0, 0>>

Outcome(r, p, t, b, l, rt, pos, o) ==
    [ret |-> r, path |-> p, top |-> t, bottom |-> b, left |-> l, right |-> rt,
     paste_position |-> pos, out |-> o]

\* The body of the try block, lines 18-122. f is the file at input_path;
\* e.openOk and e.saveOk say whether Image.open / np.array and Image.save
\* return (TRUE) or raise (FALSE). ret = "raise": an exception leaves the body.
TryBody(f, thr, ct, ms, pad, e) ==
    IF f.kind = "missing"
    THEN Outcome("False", "none", 0, 0, 0, 0, NoPaste, NoImage)
    ELSE IF f.kind = "corrupt" \/ ~e.openOk
    THEN Outcome("raise", "none", 0, 0, 0, 0, NoPaste, NoImage)
    ELSE
      LET img == f.img
          t   == FindTop(img, thr, ct)
          b   == FindBottom(img, thr, ct)
          l   == FindLeft(img, thr, ct)
          r   == FindRight(img, thr, ct)
      IN  IF NoBorders(t, b, l, r)
          THEN IF e.saveOk
               THEN Outcome("True", "nocrop", t, b, l, r, NoPaste, img)
               ELSE Outcome("raise", "nocrop", t, b, l, r, NoPaste, NoImage)
          ELSE
            LET cropped == PILCrop(img, CropBox(l, t, r, b))
                pos     == IF ms THEN PastePosition(cropped.w, cropped.h, pad)
                                 ELSE NoPaste
                final   == IF ms THEN Square(cropped, pad) ELSE cropped
            IN  IF e.saveOk
                THEN Outcome("True", "crop", t, b, l, r, pos, final)
                ELSE Outcome("raise", "crop", t, b, l, r, pos, NoImage)

\* The call without its except clause: what it would give its caller.
auto_crop_borders_no_except(f, thr, ct, ms, pad, e) ==
    TryBody(f, thr, ct, ms, pad, e)

\* The whole call: lines 124-126 turn every exception into return False.
auto_crop_borders(f, thr, ct, ms, pad, e) ==
    LET o == TryBody(f, thr, ct, ms, pad, e)
    IN  IF o.ret = "raise" THEN [o EXCEPT !.ret = "False"] ELSE o

----------------------------------------------------------------------------
(* Specification SpecCrop: one call of auto_crop_borders on a bounded set  *)
(* of input files, and a second call on the output of a first crop.        *)

\* The input file is missing, unreadable, an image with no pixels, or an
\* image of at most MaxW x MaxH pixels that is Paper except for at most
\* MaxMarks pixels, each Ink or ClearRed.
BoundedInput ==
    \/ file \in {MissingFile, CorruptFile}
    \/ \E i \in EmptyImages : file = ImageFile(i)
    \/ \E w \in 1 .. MaxW, h \in 1 .. MaxH :
         \E S \in SubsetsUpTo(Cells(w, h), MaxMarks) :
           \E m \in [S -> Marks] : file = ImageFile(MarkedImage(w, h, m))

\* The 10 x 10 scenario is run unsquared and, squared, with a padding of 2.
InitCall ==
    \/ /\ BoundedInput
       /\ make_square \in BOOLEAN
       /\ padding \in (IF make_square THEN 0 .. MaxPad ELSE {0})
    \/ /\ file = ImageFile(Scenario10)
       /\ \/ make_square = FALSE /\ padding = 0
          \/ make_square = TRUE /\ padding = 2

\* Whether Image.open / np.array (lines 25-32) and Image.save (lines 80, 120)
\* return or raise. An image with no pixels may be refused by either; any
\* save may fail (the output directory, the disk).
Environments(f) ==
    IF f.kind # "image" THEN {[openOk |-> FALSE, saveOk |-> FALSE]}
    ELSE IF IsEmptyImage(f.img)
    THEN {[openOk |-> FALSE, saveOk |-> FALSE]}
            \cup {[openOk |-> TRUE, saveOk |-> s] : s \in BOOLEAN}
    ELSE {[openOk |-> TRUE, saveOk |-> s] : s \in BOOLEAN}

NoEnv == [openOk |-> FALSE, saveOk |-> FALSE]

CropIdle ==
    /\ pc = "idle" /\ file = MissingFile /\ make_square = FALSE /\ padding = 0
    /\ env = NoEnv /\ top = 0 /\ bottom = 0 /\ left = 0 /\ right = 0
    /\ path = "none" /\ paste_position = NoPaste /\ out = NoImage
    /\ ret = "none" /\ runs = 0 /\ prev = NoImage

PixelIdle == pixel = White /\ verdict = "unset"

BatchIdle ==
    /\ bpc = "idle" /\ nFolders = 0 /\ folderIdx = 0
    /\ listing = <<>> /\ source_images = <<>> /\ imgIdx = 0
    /\ resized = <<>> /\ calls = <<>>

InitCrop ==
    /\ pc = "start"
    /\ InitCall
    /\ threshold = DefaultThreshold
    /\ crop_transparent \in BOOLEAN
    /\ env = NoEnv
    /\ top = 0 /\ bottom = 0 /\ left = 0 /\ right = 0
    /\ path = "none" /\ paste_position = NoPaste /\ out = NoImage
    /\ ret = "none" /\ runs = 1 /\ prev = NoImage
    /\ PixelIdle /\ BatchIdle

\* auto_crop_borders(input_path, output_path, threshold, crop_transparent,
\* make_square, padding), from its first line to its return.
AutoCropBorders ==
    /\ pc = "start"
    /\ \E e \in Environments(file) :
         LET o == auto_crop_borders(file, threshold, crop_transparent,
                                    make_square, padding, e)
         IN  /\ env' = e
             /\ top' = o.top /\ bottom' = o.bottom
             /\ left' = o.left /\ right' = o.right
             /\ path' = o.path
             /\ paste_position' = o.paste_position
             /\ out' = o.out
             /\ ret' = o.ret
    /\ pc' = "done"
    /\ UNCHANGED <<file, make_square, padding, runs, prev,
                   paramVars, pixelVars, batchVars>>

\* The caller hands the output of a first, unsquared crop back as the input
\* of a second call with the same threshold and transparency setting.
Recrop ==
    /\ pc = "done" /\ runs = 1
    /\ ret = "True" /\ path = "crop" /\ ~make_square
    /\ file' = ImageFile(out)
    /\ prev' = out
    /\ runs' = 2
    /\ pc' = "start"
    /\ env' = NoEnv
    /\ top' = 0 /\ bottom' = 0 /\ left' = 0 /\ right' = 0
    /\ path' = "none" /\ paste_position' = NoPaste /\ out' = NoImage
    /\ ret' = "none"
    /\ UNCHANGED <<make_square, padding, paramVars, pixelVars, batchVars>>

NextCrop == AutoCropBorders \/ Recrop

SpecCrop == InitCrop /\ [][NextCrop]_vars

----------------------------------------------------------------------------
(* Specification SpecPixel: is_background on single pixels.                *)

Channel == {0, 1, 239, 240, 241, 255}

Thresholds == {1, 240, 255}

InitPixel ==
    /\ pixel \in Channel \X Channel \X Channel \X Channel
    /\ threshold \in Thresholds
    /\ crop_transparent \in BOOLEAN
    /\ verdict = "unset"
    /\ CropIdle /\ BatchIdle

Classify ==
    /\ verdict = "unset"
    /\ verdict' = IF is_background(pixel, threshold, crop_transparent)
                  THEN "background" ELSE "content"
    /\ UNCHANGED <<pixel, cropVars, paramVars, batchVars>>

NextPixel == Classify

SpecPixel == InitPixel /\ [][NextPixel]_vars

----------------------------------------------------------------------------
(* Properties of auto_crop_borders, checked under SpecCrop.                *)
(* The definitions below restate what the claims say of the input image;   *)
(* they use none of the operators that model the code.                     *)

\* The classification rule as the specification words it.
StatedBackground(p) ==
    \/ crop_transparent /\ p[4] = 0
    \/ p[1] >= threshold /\ p[2] >= threshold /\ p[3] >= threshold

Input == file.img

ContentCells == {c \in DOMAIN Input.px : ~StatedBackground(Input.px[c])}
ContentRows  == {c[1] : c \in ContentCells}
ContentCols  == {c[2] : c \in ContentCells}

MinOf(S) == CHOOSE x \in S : \A y \in S : x <= y
MaxOf(S) == CHOOSE x \in S : \A y \in S : x >= y

ContentWidth  == MaxOf(ContentCols) - MinOf(ContentCols) + 1
ContentHeight == MaxOf(ContentRows) - MinOf(ContentRows) + 1

\* A first call on an image that has pixels has returned.
FirstDone ==
    /\ pc = "done" /\ runs = 1
    /\ file.kind = "image" /\ ~IsEmptyImage(Input)

Saved == env.saveOk

\* C1: an image whose pixels are all background takes the no-crop path with
\* the four scans exhausted (top = height, bottom = -1, left = width,
\* right = -1), and the image written is the input, pixel for pixel.
C1_AllBackgroundUnchanged ==
    (FirstDone /\ ContentCells = {}) =>
        /\ top = Input.h /\ bottom = -1
        /\ left = Input.w /\ right = -1
        /\ path = "nocrop"
        /\ Saved => (ret = "True" /\ out = Input)

C1_Witness ==
    /\ FirstDone /\ ContentCells = {} /\ ret = "True"
    /\ Input.w >= 2 /\ Input.h >= 2
    /\ \E c \in DOMAIN Input.px : Input.px[c] = ClearRed

\* C2: an unsquared crop is the minimal bounding rectangle of the content:
\* top/left the smallest and bottom/right the largest row/column holding a
\* non-background pixel, output size (right-left+1) x (bottom-top+1), output
\* pixel (i, j) = input pixel (left+i, top+j); the 10 x 10 scenario gives the
\* box (3, 3, 7, 7) and a 4 x 4 output.
C2_CropIsBoundingRectangle ==
    (FirstDone /\ path = "crop" /\ ~make_square) =>
        /\ top = MinOf(ContentRows) /\ bottom = MaxOf(ContentRows)
        /\ left = MinOf(ContentCols) /\ right = MaxOf(ContentCols)
        /\ Saved =>
             /\ ret = "True"
             /\ out.w = right - left + 1
             /\ out.h = bottom - top + 1
             /\ DOMAIN out.px = Cells(out.w, out.h)
             /\ \A c \in Cells(out.w, out.h) :
                    out.px[c] = Input.px[<<top + c[1], left + c[2]>>]
        /\ (Input = Scenario10) =>
             /\ <<left, top, right + 1, bottom + 1>> = <<3, 3, 7, 7>>
             /\ Saved => (out.w = 4 /\ out.h = 4)

C2_Witness ==
    /\ FirstDone /\ path = "crop" /\ ~make_square /\ ret = "True"
    /\ Input # Scenario10
    /\ top > 0 /\ left > 0
    /\ \E c \in Cells(out.w, out.h) : StatedBackground(out.px[c])

\* C3: a squared crop is a canvas of side max(cw, ch) + 2 * padding holding
\* the cropped pixels at (padding + (max - cw) div 2, padding + (max - ch)
\* div 2) and fully transparent pixels everywhere else; the 10 x 10 scenario
\* with padding 2 gives an 8 x 8 output with the content at (2, 2).
C3_SquareCanvas ==
    (FirstDone /\ path = "crop" /\ make_square /\ Saved) =>
        LET cw == ContentWidth
            ch == ContentHeight
            m  == Max(cw, ch)
            ox == padding + ((m - cw) \div 2)
            oy == padding + ((m - ch) \div 2)
            r0 == MinOf(ContentRows)
            c0 == MinOf(ContentCols)
        IN  /\ ret = "True"
            /\ out.w = m + 2 * padding
            /\ out.h = m + 2 * padding
            /\ DOMAIN out.px = Cells(out.w, out.h)
            /\ \A c \in Cells(out.w, out.h) :
                 IF /\ c[1] >= oy /\ c[1] < oy + ch
                    /\ c[2] >= ox /\ c[2] < ox + cw
                 THEN out.px[c] = Input.px[<<r0 + c[1] - oy, c0 + c[2] - ox>>]
                 ELSE out.px[c][4] = 0
            /\ (Input = Scenario10 /\ padding = 2) =>
                 /\ out.w = 8 /\ out.h = 8
                 /\ paste_position = <<2, 2>>

C3_Witness ==
    /\ FirstDone /\ path = "crop" /\ make_square /\ ret = "True"
    /\ Input # Scenario10
    /\ padding > 0
    /\ ContentWidth # ContentHeight

\* The gaps between the pasted content and the four edges of the canvas.
LeftGap   == paste_position[1]
TopGap    == paste_position[2]
RightGap  == out.w - (paste_position[1] + ContentWidth)
BottomGap == out.h - (paste_position[2] + ContentHeight)

StatedGap(dim) ==
    padding + ((Max(ContentWidth, ContentHeight) - dim) \div 2)

Slack(dim) == Max(ContentWidth, ContentHeight) - dim

\* C4 as stated: the content is offset from each of the four edges by
\* padding + floor((maxDim - dim) / 2).
C4_SameGapOnBothSides ==
    (FirstDone /\ path = "crop" /\ make_square /\ Saved) =>
        /\ LeftGap = StatedGap(ContentWidth)
        /\ RightGap = StatedGap(ContentWidth)
        /\ TopGap = StatedGap(ContentHeight)
        /\ BottomGap = StatedGap(ContentHeight)

\* C4 as amended: the content is offset from the left and top edges by
\* padding + floor((maxDim - dim) / 2) and from the right and bottom edges
\* by padding + ceil((maxDim - dim) / 2), i.e. the rest of the slack.
C4_FloorBeforeCeilAfter ==
    (FirstDone /\ path = "crop" /\ make_square /\ Saved) =>
        /\ LeftGap = StatedGap(ContentWidth)
        /\ RightGap = padding + Slack(ContentWidth)
                          - (Slack(ContentWidth) \div 2)
        /\ TopGap = StatedGap(ContentHeight)
        /\ BottomGap = padding + Slack(ContentHeight)
                           - (Slack(ContentHeight) \div 2)

C4_Witness ==
    /\ FirstDone /\ path = "crop" /\ make_square /\ ret = "True"
    /\ Slack(ContentWidth) % 2 = 1
    /\ RightGap = LeftGap + 1

\* C5 as stated: a second call on the output of a first unsquared crop takes
\* the no-crop path and writes the same pixels.
C5_RecropTakesNoCropPath ==
    (pc = "done" /\ runs = 2) =>
        /\ path = "nocrop"
        /\ Saved => out = prev

\* C5 as amended: a second call on the output of a first unsquared crop takes
\* the crop path again, with the boundaries on the image's own edges (top =
\* left = 0, right = width - 1, bottom = height - 1), and writes the same
\* pixels as the first output.
C5_RecropKeepsWholeImage ==
    (pc = "done" /\ runs = 2) =>
        /\ path = "crop"
        /\ top = 0 /\ left = 0
        /\ right = prev.w - 1 /\ bottom = prev.h - 1
        /\ Saved => (ret = "True" /\ out = prev)

C5_Witness ==
    /\ pc = "done" /\ runs = 2 /\ ret = "True" /\ path = "crop"
    /\ out = prev
    /\ \E c \in DOMAIN prev.px : StatedBackground(prev.px[c])

EmptyDone ==
    pc = "done" /\ file.kind = "image" /\ IsEmptyImage(Input)

\* C8 as stated: on an image of zero width or zero height the call raises to
\* its caller and writes nothing.
C8_EmptyImageRaises ==
    EmptyDone => (ret = "raise" /\ out = NoImage)

\* C8 as amended: on an image of zero width or zero height the call raises
\* nothing. If the library opens the image the scans end with top >= bottom,
\* the no-crop path saves the image as it is and the call returns True; if
\* opening or saving raises, the exception is caught and the call returns
\* False with nothing written.
C8_EmptyImageNeverRaises ==
    EmptyDone =>
        /\ ret \in {"True", "False"}
        /\ (ret = "True") <=> (env.openOk /\ env.saveOk)
        /\ env.openOk => (path = "nocrop" /\ top >= bottom)
        /\ (ret = "True") => out = Input
        /\ (ret = "False") => out = NoImage

C8_Witness ==
    EmptyDone /\ ret = "False" /\ env.openOk /\ ~env.saveOk

\* C9: the call crops exactly when top < bottom and left < right, so every
\* cropped region is at least 2 x 2, and an image whose content lies in one
\* row or in one column is written back unchanged; for a single content
\* pixel at (x, y) the scans give left = right = x and top = bottom = y.
C9_CropsOnlyTwoByTwo ==
    FirstDone =>
        /\ (path = "crop") <=> (top < bottom /\ left < right)
        /\ (path = "crop") =>
             /\ right - left + 1 >= 2 /\ bottom - top + 1 >= 2
             /\ ContentWidth >= 2 /\ ContentHeight >= 2
        /\ (Cardinality(ContentRows) = 1 \/ Cardinality(ContentCols) = 1) =>
             /\ path = "nocrop"
             /\ Saved => (ret = "True" /\ out = Input)
        /\ (Cardinality(ContentCells) = 1) =>
             \A c \in ContentCells :
                 left = c[2] /\ right = c[2] /\ top = c[1] /\ bottom = c[1]

C9_Witness ==
    /\ FirstDone /\ ret = "True" /\ path = "nocrop"
    /\ Cardinality(ContentCells) = 1
    /\ top > 0 /\ left > 0 /\ bottom < Input.h - 1 /\ right < Input.w - 1
    /\ out = Input

----------------------------------------------------------------------------
(* Properties of is_background, checked under SpecPixel.                   *)

PassesThreshold ==
    pixel[1] >= threshold /\ pixel[2] >= threshold /\ pixel[3] >= threshold

\* C6: a pixel is background exactly when (crop_transparent and alpha = 0)
\* or R, G and B are all >= threshold. So with crop_transparent an alpha-0
\* pixel is background whatever its colour, a pixel of any other alpha is
\* background only on its colour, and without crop_transparent alpha plays
\* no part.
C6_Classification ==
    (verdict # "unset") =>
        /\ (verdict = "background") <=>
             ((crop_transparent /\ pixel[4] = 0) \/ PassesThreshold)
        /\ (crop_transparent /\ pixel[4] = 0) => verdict = "background"
        /\ (pixel[4] # 0) => ((verdict = "background") <=> PassesThreshold)
        /\ ~crop_transparent => ((verdict = "background") <=> PassesThreshold)

C6_Witness ==
    /\ verdict = "background"
    /\ pixel = <<255, 0, 0, 0>>
    /\ crop_transparent /\ threshold = 240

----------------------------------------------------------------------------
(* process_folder, lines 128-177 *)

\* A directory entry, as os.path.splitext splits it (line 166).
Names ==
    { [base |-> "a", ext |-> ".png"], [base |-> "a", ext |-> ".JPG"],
      [base |-> "b", ext |-> ".jpeg"], [base |-> "notes", ext |-> ".txt"] }

\* str.lower on the extensions of Names.
Lower(ext) ==
    CASE ext = ".JPG" -> ".jpg"
      [] OTHER -> ext

\* Lines 154 and 161: file.lower().endswith(('.png', '.jpg', '.jpeg')).
IsImageName(n) == Lower(n.ext) \in {".png", ".jpg", ".jpeg"}

\* os.listdir of a directory: its entries, in the order the system gives.
Listings ==
    { l \in UNION { [1 .. n -> Names] : n \in 0 .. MaxFiles } :
        \A i, j \in DOMAIN l : i # j => l[i] # l[j] }

\* The source directories of one folder when process_folder reaches it:
\* whether PNG and "Transparent_ Background" exist as directories, and what
\* they hold.
FolderStates ==
    { [pngDir |-> pd, png |-> pl, tbDir |-> td, tb |-> tl] :
        pd \in BOOLEAN, pl \in Listings, td \in BOOLEAN, tl \in Listings }

NoFolder == [pngDir |-> FALSE, png |-> <<>>, tbDir |-> FALSE, tb |-> <<>>]

\* Lines 153-155 and 160-162: the (path, file) pairs appended for one
\* directory, in listing order.
RECURSIVE Appended(_, _)
Appended(dir, l) ==
    IF l = <<>> THEN <<>>
    ELSE (IF IsImageName(Head(l))
          THEN << [path |-> <<dir, Head(l)>>, filename |-> Head(l)] >>
          ELSE <<>>) \o Appended(dir, Tail(l))

\* Lines 148-162: PNG first, then "Transparent_ Background"; a directory that
\* does not exist adds nothing.
SourceImages(f) ==
    (IF f.pngDir THEN Appended("PNG", f.png) ELSE <<>>)
        \o (IF f.tbDir THEN Appended("Transparent_ Background", f.tb) ELSE <<>>)

\* Lines 166-168: the output path inside the folder's Resized directory.
OutputPath_keeps_extension(filename) ==
    <<"Resized", filename.base, filename.ext, "_cropped.png">>

OutputPath(filename) == <<"Resized", filename.base, "_cropped.png">>

\* What a discovered path may hold when auto_crop_borders opens it: nothing
\* (a dangling link), something Image.open refuses, an image of one
\* background pixel, an image with no pixels, or a 2 x 2 image of content.
BatchFiles ==
    { MissingFile, CorruptFile,
      ImageFile(MarkedImage(1, 1, <<>>)),
      ImageFile([w |-> 0, h |-> 0, px |-> <<>>]),
      ImageFile([w |-> 2, h |-> 2, px |-> [c \in Cells(2, 2) |-> Ink]]) }

\* Line 171: the call's return value, or "raise" if an exception leaves it.
BatchCall(f, e) ==
    auto_crop_borders(f, BatchThreshold, TRUE, TRUE, BatchPadding, e).ret

InitBatch ==
    /\ bpc = "start"
    /\ nFolders \in 0 .. MaxFolders
    /\ folderIdx = 0
    /\ listing = NoFolder
    /\ source_images = <<>>
    /\ imgIdx = 0
    /\ resized = <<>>
    /\ calls = <<>>
    /\ threshold = BatchThreshold
    /\ crop_transparent = TRUE
    /\ CropIdle /\ PixelIdle

\* Line 135: the sub-directories of target_dir are listed.
ListFolders ==
    /\ bpc = "start"
    /\ bpc' = "loop"
    /\ UNCHANGED <<nFolders, folderIdx, listing, source_images, imgIdx,
                   resized, calls, cropVars, paramVars, pixelVars>>

\* Lines 137-162, for the next folder: Resized is created if absent, and
\* source_images is rebuilt from the folder's two source directories.
EnterFolder ==
    /\ bpc = "loop" /\ folderIdx < nFolders
    /\ \E f \in FolderStates :
         /\ ~f.pngDir => f.png = <<>>
         /\ ~f.tbDir => f.tb = <<>>
         /\ listing' = f
         /\ source_images' = SourceImages(f)
    /\ bpc' = "images"
    /\ UNCHANGED <<nFolders, folderIdx, imgIdx, resized, calls,
                   cropVars, paramVars, pixelVars>>

\* Lines 165-171, one iteration: auto_crop_borders on the next source image.
\* An exception leaving the call would reach line 176 and end the batch.
ProcessImage ==
    /\ bpc = "images" /\ imgIdx < Len(source_images)
    /\ LET src    == source_images[imgIdx + 1]
           output == OutputPath(src.filename)
       IN  \E f \in BatchFiles : \E e \in Environments(f) :
             LET r == BatchCall(f, e)
             IN  /\ calls' = Append(calls, [source |-> src.path,
                                            filename |-> src.filename,
                                            output |-> output,
                                            ret |-> r])
                 /\ resized' =
                      IF r = "True"
                      THEN [n \in DOMAIN resized \cup {output} |->
                              IF n = output THEN src.path ELSE resized[n]]
                      ELSE resized
                 /\ bpc' = IF r = "raise" THEN "aborted" ELSE "images"
    /\ imgIdx' = imgIdx + 1
    /\ UNCHANGED <<nFolders, folderIdx, listing, source_images,
                   cropVars, paramVars, pixelVars>>

\* Lines 173-174 and the end of the loop body: process_folder leaves the
\* folder (and its Resized directory) for the next one.
FinishFolder ==
    /\ bpc = "images" /\ imgIdx = Len(source_images)
    /\ folderIdx' = folderIdx + 1
    /\ listing' = NoFolder
    /\ source_images' = <<>>
    /\ imgIdx' = 0
    /\ resized' = <<>>
    /\ calls' = <<>>
    /\ bpc' = "loop"
    /\ UNCHANGED <<nFolders, cropVars, paramVars, pixelVars>>

\* The for loop of line 137 is exhausted: process_folder returns.
Return ==
    /\ bpc = "loop" /\ folderIdx = nFolders
    /\ bpc' = "done"
    /\ UNCHANGED <<nFolders, folderIdx, listing, source_images, imgIdx,
                   resized, calls, cropVars, paramVars, pixelVars>>

NextBatch ==
    ListFolders \/ EnterFolder \/ ProcessImage \/ FinishFolder \/ Return

\* process_folder is straight-line sequential code: it keeps running until it
\* returns. Its own os calls (listdir, makedirs, exists) are taken to succeed;
\* the only exception followed to the except clause of line 176 is one
\* leaving auto_crop_borders.
SpecBatch == InitBatch /\ [][NextBatch]_vars /\ WF_vars(NextBatch)

----------------------------------------------------------------------------
(* Properties of process_folder, checked under SpecBatch.                  *)

\* Every image of the current folder has been through the loop of line 165.
FolderComplete == bpc = "images" /\ imgIdx = Len(source_images)

\* The images the folder's listing holds, as the specification words it: the
\* entries of an existing PNG or "Transparent_ Background" directory whose
\* extension is .png, .jpg or .jpeg in any case.
StatedImages(dirExists, dir, l) ==
    IF dirExists
    THEN { <<dir, l[i]>> :
             i \in { j \in DOMAIN l : l[j].ext \in {".png", ".JPG", ".jpeg"} } }
    ELSE {}

Discovered ==
    StatedImages(listing.pngDir, "PNG", listing.png)
        \cup StatedImages(listing.tbDir, "Transparent_ Background", listing.tb)

CallsOn(d) == {k \in DOMAIN calls : calls[k].source = d}

\* C7: a failing auto_crop_borders call never ends the batch: the batch is
\* never aborted, every image before the current one has had its call
\* whatever the earlier calls returned, every discovered image of a folder
\* has had exactly one call when the folder is left (a missing source
\* directory contributing none), and process_folder reaches its end with
\* every folder done.
C7_FailureNeverAbortsBatch ==
    /\ [](bpc # "aborted")
    /\ [](bpc = "images" => Len(calls) = imgIdx)
    /\ [](FolderComplete =>
            /\ \A d \in Discovered : Cardinality(CallsOn(d)) = 1
            /\ \A k \in DOMAIN calls : calls[k].source \in Discovered)
    /\ <>(bpc = "done" /\ folderIdx = nFolders)

C7_Witness ==
    /\ FolderComplete /\ folderIdx >= 1
    /\ ~listing.pngDir
    /\ \E i, j \in DOMAIN calls :
         i < j /\ calls[i].ret = "False" /\ calls[j].ret = "True"

SameBase(i, j) == calls[i].filename.base = calls[j].filename.base

\* C10: the output path is Resized/<base>_cropped.png, a function of the
\* folder and the base name alone; PNG images are processed before
\* "Transparent_ Background" images; Resized never holds more outputs than
\* there are distinct base names among the processed images; and of two
\* saved images sharing a base name the later one is what the path holds.
C10_OneOutputPerBaseName ==
    (bpc = "images") =>
        /\ \A k \in DOMAIN calls :
             calls[k].output = <<"Resized", calls[k].filename.base, "_cropped.png">>
        /\ \A i, j \in DOMAIN calls :
             (i < j) => ~(/\ calls[i].source[1] = "Transparent_ Background"
                          /\ calls[j].source[1] = "PNG")
        /\ Cardinality(DOMAIN resized)
             <= Cardinality({calls[k].filename.base : k \in DOMAIN calls})
        /\ \A i, j \in DOMAIN calls :
             ( /\ i < j /\ SameBase(i, j)
               /\ calls[i].ret = "True" /\ calls[j].ret = "True"
               /\ \A k \in DOMAIN calls : (k > j) => ~SameBase(k, j) )
             => /\ calls[j].output \in DOMAIN resized
                /\ resized[calls[j].output] = calls[j].source

C10_Witness ==
    /\ FolderComplete
    /\ \E i, j \in DOMAIN calls :
         /\ i < j
         /\ calls[i].source[1] = "PNG"
         /\ calls[j].source[1] = "Transparent_ Background"
         /\ calls[i].filename = calls[j].filename
         /\ calls[i].ret = "True" /\ calls[j].ret = "True"
         /\ resized[calls[j].output] = calls[j].source
    /\ Cardinality(DOMAIN resized) < Len(calls)
    /\ Cardinality(DOMAIN resized) = 1

====
